---- MODULE Spec2Model ----
(***************************************************************************)
(* The sleep-and-lifestyle dashboards of src/app.py and                    *)
(* src/project4/app.py: the table each loads at startup, the row filter    *)
(* filter_df, and the Dash callbacks that filter the table for a chart.    *)
(*                                                                         *)
(* A table is a sequence of rows in pandas order.  A row is a record of    *)
(* its cells plus `index`, the pandas index label read_csv gives it        *)
(* (0, 1, ...), which boolean-mask indexing keeps.  Sleep Duration is in   *)
(* tenths of an hour (6.5 h is 65), so the comparisons are exact.          *)
(*                                                                         *)
(* A Python argument that may be None is a record [isNone, list]: None is  *)
(* [isNone |-> TRUE, list |-> <<>>] and a list xs is                       *)
(* [isNone |-> FALSE, list |-> xs].                                        *)
(***************************************************************************)
EXTENDS Integers, Sequences, FiniteSets, TLC

\* The longest generated CSV file, in rows.
MaxRows == 2

----------------------------------------------------------------------------
\* Python values

None == [isNone |-> TRUE, list |-> <<>>]

List(xs) == [isNone |-> FALSE, list |-> xs]

\* Python truthiness of None or a list, as `if stress:` tests it: None and []
\* are false, every other list is true.
Truthy(x) == ~x.isNone /\ Len(x.list) > 0

\* isin as a comparison with the first selected value only.
isin_first(cell, values) == Len(values) > 0 /\ values[1] = cell

\* pandas Series.isin(values) for one cell: the cell equals some element.
isin(cell, values) == \E i \in 1..Len(values) : values[i] = cell

----------------------------------------------------------------------------
\* The CSV file

SleepValues == {50, 65}
StressValues == {3, 5}
ActivityValues == {30, 60}

CsvRow(sl, st, ac) ==
    [SleepDuration |-> sl, StressLevel |-> st, PhysicalActivityLevel |-> ac]

RowKinds ==
    {CsvRow(sl, st, ac) : sl \in SleepValues, st \in StressValues, ac \in ActivityValues}

\* Sleep Duration 5.0, 6.5, 8.0, 7.2 in file order (spec.md, section 8).
ExampleFile ==
    << CsvRow(50, 3, 30), CsvRow(65, 7, 60), CsvRow(80, 5, 60), CsvRow(72, 3, 30) >>

\* A dashboard starts only on a file with at least one row: the layout takes
\* int(df['Sleep Duration'].min()), which fails on an empty column.
Files == UNION {[1..n -> RowKinds] : n \in 1..MaxRows} \cup {ExampleFile}

----------------------------------------------------------------------------
\* Loading

\* pd.read_csv: the file's rows in order, labelled 0, 1, ... by the default index.
read_csv(file) ==
    [i \in 1..Len(file) |->
        [index |-> i - 1,
         SleepDuration |-> file[i].SleepDuration,
         StressLevel |-> file[i].StressLevel,
         PhysicalActivityLevel |-> file[i].PhysicalActivityLevel]]

\* Sample IDs numbered from 0, as range(len(df)) would.
AddSampleID_zero(t) ==
    [i \in 1..Len(t) |->
        [index |-> t[i].index,
         SleepDuration |-> t[i].SleepDuration,
         StressLevel |-> t[i].StressLevel,
         PhysicalActivityLevel |-> t[i].PhysicalActivityLevel,
         SampleID |-> i - 1]]

\* df['Sample ID'] = range(1, len(df) + 1): the k-th row gets the k-th element.
AddSampleID(t) ==
    [i \in 1..Len(t) |->
        [index |-> t[i].index,
         SleepDuration |-> t[i].SleepDuration,
         StressLevel |-> t[i].StressLevel,
         PhysicalActivityLevel |-> t[i].PhysicalActivityLevel,
         SampleID |-> i]]

\* src/app.py, module level.
load_app(file) == AddSampleID(read_csv(file))

\* src/project4/app.py, module level: no Sample ID column is added.
load_project4(file) == read_csv(file)

----------------------------------------------------------------------------
\* The row filter of src/app.py

\* filtered[filtered['Stress Level'].isin(stress)]: the rows whose mask is
\* True, in order, each with its index label and cells.
MaskStress(t, stress) ==
    LET Test(r) == isin(r.StressLevel, stress) IN SelectSeq(t, Test)

MaskActivity(t, activity) ==
    LET Test(r) == isin(r.PhysicalActivityLevel, activity) IN SelectSeq(t, Test)

\* The interval with its upper end open.
MaskSleep_strict(t, sleep_range) ==
    LET Test(r) == r.SleepDuration >= sleep_range[1] /\ r.SleepDuration < sleep_range[2]
    IN  SelectSeq(t, Test)

\* (col >= sleep_range[0]) & (col <= sleep_range[1])
MaskSleep(t, sleep_range) ==
    LET Test(r) == r.SleepDuration >= sleep_range[1] /\ r.SleepDuration <= sleep_range[2]
    IN  SelectSeq(t, Test)

\* filter_df raises IndexError at sleep_range[1] when the list is truthy and
\* has a single element.
filter_df_raises(table, stress, activity, sleep_range) ==
    Truthy(sleep_range) /\ Len(sleep_range.list) < 2

\* filter_df with `elif activity:` for `if activity:`.
filter_df_elif(table, stress, activity, sleep_range) ==
    LET f1 == IF Truthy(stress) THEN MaskStress(table, stress.list)
              ELSE IF Truthy(activity) THEN MaskActivity(table, activity.list) ELSE table
    IN  IF Truthy(sleep_range) THEN MaskSleep(f1, sleep_range.list) ELSE f1

\* filter_df testing `is not None` where the code tests truthiness.
filter_df_isnotnone(table, stress, activity, sleep_range) ==
    LET f1 == IF ~stress.isNone THEN MaskStress(table, stress.list) ELSE table
        f2 == IF ~activity.isNone THEN MaskActivity(f1, activity.list) ELSE f1
    IN  IF Truthy(sleep_range) THEN MaskSleep(f2, sleep_range.list) ELSE f2

\* filter_df returning filtered.iloc[:-1]: the last row is cut off.
filter_df_droplast(table, stress, activity, sleep_range) ==
    LET f1 == IF Truthy(stress) THEN MaskStress(table, stress.list) ELSE table
        f2 == IF Truthy(activity) THEN MaskActivity(f1, activity.list) ELSE f1
        f3 == IF Truthy(sleep_range) THEN MaskSleep(f2, sleep_range.list) ELSE f2
    IN  IF Len(f3) = 0 THEN f3 ELSE SubSeq(f3, 1, Len(f3) - 1)

\* filter_df reading an interval with lo > hi as no constraint.
filter_df_lenient(table, stress, activity, sleep_range) ==
    LET f1 == IF Truthy(stress) THEN MaskStress(table, stress.list) ELSE table
        f2 == IF Truthy(activity) THEN MaskActivity(f1, activity.list) ELSE f1
    IN  IF Truthy(sleep_range) /\ sleep_range.list[1] <= sleep_range.list[2]
        THEN MaskSleep(f2, sleep_range.list) ELSE f2

\* What filter_df returns when it does not raise: a copy of the table, cut
\* down by the stress, the activity and the sleep predicate, in that order,
\* each only when its argument is truthy.
filter_df(table, stress, activity, sleep_range) ==
    LET copied == table
        f1 == IF Truthy(stress) THEN MaskStress(copied, stress.list) ELSE copied
        f2 == IF Truthy(activity) THEN MaskActivity(f1, activity.list) ELSE f1
        f3 == IF Truthy(sleep_range) THEN MaskSleep(f2, sleep_range.list) ELSE f2
    IN  f3

\* update_plots with `elif selected_activity:` for `if selected_activity:`.
update_plots_filter_elif(table, selected_stress, selected_activity) ==
    IF Truthy(selected_stress) THEN MaskStress(table, selected_stress.list)
    ELSE IF Truthy(selected_activity) THEN MaskActivity(table, selected_activity.list)
    ELSE table

\* The filtering that update_plots of src/project4/app.py does inline.
update_plots_filter(table, selected_stress, selected_activity) ==
    LET copied == table
        f1 == IF Truthy(selected_stress)
              THEN MaskStress(copied, selected_stress.list) ELSE copied
        f2 == IF Truthy(selected_activity)
              THEN MaskActivity(f1, selected_activity.list) ELSE f1
    IN  f2

----------------------------------------------------------------------------
\* State

VARIABLES
    csv,    \* the rows of the CSV file both variants read
    df,     \* src/app.py's module-level table
    df_p4,  \* src/project4/app.py's module-level table
    last    \* the latest call: who ran, on what arguments, and what came back

vars == << csv, df, df_p4, last >>

\* A call that returned `rows`, or raised (then rows is empty and unused).
\* nth is 0 before any call, 1 for the first call and 2 for every later one.
Call(handler, table, stress, activity, sleep_range, raised, rows, nth) ==
    [handler |-> handler, table |-> table, stress |-> stress, activity |-> activity,
     sleep_range |-> sleep_range, raised |-> raised,
     rows |-> IF raised THEN << >> ELSE rows, nth |-> nth]

NoCall == Call("none", << >>, None, None, None, FALSE, << >>, 0)

\* The state once both modules have been imported: the file is read, the
\* Sample ID column added (src/app.py only), no callback has run.
Init ==
    /\ csv \in Files
    /\ df = load_app(csv)
    /\ df_p4 = load_project4(csv)
    /\ last = NoCall

----------------------------------------------------------------------------
\* Values a callback can be sent

\* sleep-slider: None, an empty list, a one-element list, or [lo, hi] with
\* any lo and hi, ordered or not.
SliderStops == {60, 65, 80}
SleepRanges ==
    {None, List(<< >>), List(<<60>>)} \cup {List(<<lo, hi>>) : lo, hi \in SliderStops}

\* Stress Level selections; 7 is a level the generated files never hold.
StressSelections ==
    {None, List(<< >>), List(<<3>>), List(<<3, 5>>), List(<<7>>), List(<<3, 7>>)}

\* Physical Activity Level selections; 90 is in no file.
ActivitySelections ==
    {None, List(<< >>), List(<<30>>), List(<<30, 60>>), List(<<90>>)}

----------------------------------------------------------------------------
\* The callbacks of src/app.py.  Each filters the module-level df and hands
\* the rows to plotly; none assigns df.

Respond(handler, table, stress, activity, sleep_range) ==
    Call(handler, table, stress, activity, sleep_range,
         filter_df_raises(table, stress, activity, sleep_range),
         filter_df(table, stress, activity, sleep_range),
         IF last.nth = 0 THEN 1 ELSE 2)

\* update_overview filtering the module-level table in place.
update_overview_inplace(sleep_range) ==
    /\ last' = Respond("update_overview", df, None, None, sleep_range)
    /\ df' = IF last'.raised THEN df ELSE last'.rows
    /\ UNCHANGED << csv, df_p4 >>

update_overview(sleep_range) ==
    /\ last' = Respond("update_overview", df, None, None, sleep_range)
    /\ UNCHANGED << csv, df, df_p4 >>

\* update_stress filtering the rows of the previous figure, not df.
update_stress_incremental(selected_stress) ==
    /\ last' = Respond("update_stress", IF last.nth = 0 THEN df ELSE last.rows,
                       selected_stress, None, None)
    /\ UNCHANGED << csv, df, df_p4 >>

update_stress(selected_stress) ==
    /\ last' = Respond("update_stress", df, selected_stress, None, None)
    /\ UNCHANGED << csv, df, df_p4 >>

update_activity(selected_activity) ==
    /\ last' = Respond("update_activity", df, None, selected_activity, None)
    /\ UNCHANGED << csv, df, df_p4 >>

update_comprehensive(selected_stress, selected_activity) ==
    /\ last' = Respond("update_comprehensive", df, selected_stress, selected_activity, None)
    /\ UNCHANGED << csv, df, df_p4 >>

\* The callback of src/project4/app.py: all five figures are drawn from the
\* one filtered_df.
update_plots(selected_stress, selected_activity) ==
    /\ last' = Call("update_plots", df_p4, selected_stress, selected_activity, None,
                    FALSE, update_plots_filter(df_p4, selected_stress, selected_activity),
                    IF last.nth = 0 THEN 1 ELSE 2)
    /\ UNCHANGED << csv, df, df_p4 >>

Next ==
    \/ \E sleep_range \in SleepRanges : update_overview(sleep_range)
    \/ \E selected_stress \in StressSelections : update_stress(selected_stress)
    \/ \E selected_activity \in ActivitySelections : update_activity(selected_activity)
    \/ \E selected_stress \in StressSelections, selected_activity \in ActivitySelections :
          update_comprehensive(selected_stress, selected_activity)
    \/ \E selected_stress \in StressSelections, selected_activity \in ActivitySelections :
          update_plots(selected_stress, selected_activity)

Spec == Init /\ [][Next]_vars

----------------------------------------------------------------------------
\* filter_df as a function: one call on the loaded table with any
\* combination of arguments, then the same call again on what it returned.

call_filter_df(stress, activity, sleep_range) ==
    /\ last.nth = 0
    /\ last' = Call("filter_df", df, stress, activity, sleep_range,
                    filter_df_raises(df, stress, activity, sleep_range),
                    filter_df(df, stress, activity, sleep_range), 1)
    /\ UNCHANGED << csv, df, df_p4 >>

refilter ==
    /\ last.handler = "filter_df"
    /\ last.nth = 1
    /\ ~last.raised
    /\ last' = Call("filter_df", last.rows, last.stress, last.activity, last.sleep_range,
                    filter_df_raises(last.rows, last.stress, last.activity, last.sleep_range),
                    filter_df(last.rows, last.stress, last.activity, last.sleep_range), 2)
    /\ UNCHANGED << csv, df, df_p4 >>

NextFilter ==
    \/ \E stress \in StressSelections, activity \in ActivitySelections,
          sleep_range \in SleepRanges : call_filter_df(stress, activity, sleep_range)
    \/ refilter

FilterSpec == Init /\ [][NextFilter]_vars

----------------------------------------------------------------------------
\* What the properties below are stated with.  None of these uses the
\* filter's definitions.

\* r is one of the rows of table t (index label and every cell equal).
InTable(r, t) == \E j \in 1..Len(t) : t[j] = r

\* The elements of a list argument.
Elements(x) == {x.list[i] : i \in 1..Len(x.list)}

\* A selection was supplied and is not empty.
NonEmpty(x) == ~x.isNone /\ Len(x.list) > 0

\* An interval [lo, hi] was supplied.
IsInterval(x) == ~x.isNone /\ Len(x.list) = 2

\* No constraint: the argument is None or [].
Absent(x) == x.isNone \/ Len(x.list) = 0

\* Row r satisfies every predicate supplied.
Keeps(r, stress, activity, sleep_range) ==
    /\ IsInterval(sleep_range) =>
          sleep_range.list[1] <= r.SleepDuration /\ r.SleepDuration <= sleep_range.list[2]
    /\ NonEmpty(stress) => r.StressLevel \in Elements(stress)
    /\ NonEmpty(activity) => r.PhysicalActivityLevel \in Elements(activity)

\* The rows keep the order of the table they came from, none twice: the index
\* labels, which increase down every loaded table, increase down the rows.
InOrder(rows) == \A i, j \in 1..Len(rows) : i < j => rows[i].index < rows[j].index

\* rows is exactly the rows of t that satisfy stress, activity and
\* sleep_range, in t's order.
ExactlyRows(rows, t, stress, activity, sleep_range) ==
    /\ \A i \in 1..Len(rows) :
          InTable(rows[i], t) /\ Keeps(rows[i], stress, activity, sleep_range)
    /\ \A j \in 1..Len(t) :
          Keeps(t[j], stress, activity, sleep_range) => InTable(t[j], rows)
    /\ InOrder(rows)

SleepColumn(t) == [i \in 1..Len(t) |-> t[i].SleepDuration]

\* filter_df was called directly and returned.
Returned == last.handler = "filter_df" /\ ~last.raised

\* A callback ran and returned.
Handlers ==
    {"update_overview", "update_stress", "update_activity", "update_comprehensive",
     "update_plots"}
Handled == last.handler \in Handlers /\ ~last.raised

----------------------------------------------------------------------------
\* C1: every row filter_df returns is a row of the table it was given and
\* satisfies every predicate supplied: lo <= Sleep Duration <= hi for an
\* interval, membership for a non-empty stress or activity selection.
C1_RowsAreInputRowsSatisfyingAll ==
    Returned =>
        \A i \in 1..Len(last.rows) :
            /\ InTable(last.rows[i], last.table)
            /\ Keeps(last.rows[i], last.stress, last.activity, last.sleep_range)

\* All three predicates supplied; some rows kept and some dropped.
C1_Witness ==
    /\ Returned
    /\ NonEmpty(last.stress) /\ NonEmpty(last.activity) /\ IsInterval(last.sleep_range)
    /\ Len(last.rows) > 0
    /\ Len(last.rows) < Len(last.table)

\* C3: with every predicate None or [], filter_df returns the table it was
\* given: the same rows in the same order.
C3_NoPredicateReturnsTable ==
    (Returned /\ Absent(last.stress) /\ Absent(last.activity) /\ Absent(last.sleep_range))
        => last.rows = last.table

\* stress=[] with the rest None, on a table of several rows.
C3_Witness ==
    /\ Returned
    /\ last.stress = List(<< >>) /\ last.activity = None /\ last.sleep_range = None
    /\ Len(last.table) = 4
    /\ last.rows = last.table

\* C4: with only sleep_range = [lo, hi], filter_df returns exactly the rows
\* with lo <= Sleep Duration <= hi, both ends included, in the table's order;
\* for 5.0, 6.5, 8.0, 7.2 and [6.0, 8.0] that is 6.5, 8.0, 7.2.
C4_ClosedInterval ==
    (Returned /\ Absent(last.stress) /\ Absent(last.activity) /\ IsInterval(last.sleep_range))
        => /\ ExactlyRows(last.rows, last.table, None, None, last.sleep_range)
           /\ (last.table = load_app(ExampleFile) /\ last.sleep_range = List(<<60, 80>>))
                 => SleepColumn(last.rows) = <<65, 80, 72>>

\* The example of the spec: the row at hi = 8.0 is kept, the row at 5.0 is not.
C4_Witness ==
    /\ Returned
    /\ last.stress = None /\ last.activity = None
    /\ last.sleep_range = List(<<60, 80>>)
    /\ SleepColumn(last.table) = <<50, 65, 80, 72>>
    /\ SleepColumn(last.rows) = <<65, 80, 72>>

\* C5: with only a stress selection S, filter_df returns every row when S is
\* empty and otherwise exactly the rows whose Stress Level is in S; the same
\* for an activity selection alone.
C5_SelectionIsMembership ==
    /\ (Returned /\ Absent(last.activity) /\ Absent(last.sleep_range))
          => /\ ExactlyRows(last.rows, last.table, last.stress, None, None)
             /\ Absent(last.stress) => last.rows = last.table
             /\ NonEmpty(last.stress) =>
                   Len(last.rows) =
                       Cardinality({j \in 1..Len(last.table) :
                                       last.table[j].StressLevel \in Elements(last.stress)})
    /\ (Returned /\ Absent(last.stress) /\ Absent(last.sleep_range))
          => /\ ExactlyRows(last.rows, last.table, None, last.activity, None)
             /\ Absent(last.activity) => last.rows = last.table
             /\ NonEmpty(last.activity) =>
                   Len(last.rows) =
                       Cardinality({j \in 1..Len(last.table) :
                                       last.table[j].PhysicalActivityLevel
                                           \in Elements(last.activity)})

\* Selection [3, 5] on the example file: the rows of level 3 and 5 are
\* returned, the row of level 7 is not.
C5_Witness ==
    /\ Returned
    /\ last.stress = List(<<3, 5>>) /\ last.activity = None /\ last.sleep_range = None
    /\ last.table = load_app(ExampleFile)
    /\ [i \in 1..Len(last.rows) |-> last.rows[i].StressLevel] = <<3, 5, 3>>

\* C6: filtering what filter_df returned, with the same predicates, returns
\* it again: the same rows in the same order.
C6_Idempotent ==
    (Returned /\ last.nth = 2) => last.rows = last.table

\* The second pass over a result that had dropped rows and kept some.
C6_Witness ==
    /\ Returned /\ last.nth = 2
    /\ Len(last.table) > 0
    /\ Len(last.table) < Len(df)
    /\ last.rows = last.table

----------------------------------------------------------------------------
\* Malformed control values, as a callback may receive them.

SleepOf(t) == {t[j].SleepDuration : j \in 1..Len(t)}

\* An interval with lo > hi, or lying wholly below or above the table's
\* Sleep Duration values.
BadInterval(x, t) ==
    /\ IsInterval(x)
    /\ \/ x.list[1] > x.list[2]
       \/ \A v \in SleepOf(t) : x.list[2] < v
       \/ \A v \in SleepOf(t) : x.list[1] > v

\* A selection holding a Stress Level that no row of the table has.
UnknownStress(x, t) ==
    NonEmpty(x) /\ \E v \in Elements(x) : \A j \in 1..Len(t) : t[j].StressLevel # v

\* A selection holding a Physical Activity Level that no row of the table has.
UnknownActivity(x, t) ==
    NonEmpty(x) /\ \E v \in Elements(x) : \A j \in 1..Len(t) : t[j].PhysicalActivityLevel # v

\* A callback ran on at least one malformed control value.
Malformed ==
    /\ last.handler \in Handlers
    /\ \/ BadInterval(last.sleep_range, last.table)
       \/ UnknownStress(last.stress, last.table)
       \/ UnknownActivity(last.activity, last.table)

\* x when it is well formed, None when it is malformed.
Forgive(x, bad) == IF bad THEN None ELSE x

\* C2, as the spec states it: a callback that receives a malformed control
\* value (an out-of-range interval, a selection with an unknown category)
\* does not raise and returns the rows it would return with that predicate
\* absent.
C2_MalformedMeansNoConstraint ==
    Malformed =>
        /\ ~last.raised
        /\ ExactlyRows(last.rows, last.table,
                       Forgive(last.stress, UnknownStress(last.stress, last.table)),
                       Forgive(last.activity, UnknownActivity(last.activity, last.table)),
                       Forgive(last.sleep_range, BadInterval(last.sleep_range, last.table)))

\* C2, amended: a callback that receives a malformed control value does not
\* raise and applies the value as it stands: it returns exactly the rows that
\* satisfy every predicate supplied, so none for an interval with lo > hi or
\* wholly outside the data, and none for a selection of unknown categories only.
C2_MalformedIsAppliedLiterally ==
    Malformed =>
        /\ ~last.raised
        /\ ExactlyRows(last.rows, last.table, last.stress, last.activity, last.sleep_range)
        /\ BadInterval(last.sleep_range, last.table) => last.rows = << >>
        /\ (NonEmpty(last.stress) /\
            \A v \in Elements(last.stress) :
               \A j \in 1..Len(last.table) : last.table[j].StressLevel # v)
              => last.rows = << >>

\* update_overview received [8.0, 6.0] and returned no row of a table that
\* has rows.
C2_Witness ==
    /\ last.handler = "update_overview"
    /\ last.sleep_range = List(<<80, 60>>)
    /\ ~last.raised
    /\ last.rows = << >>
    /\ Len(last.table) > 0

----------------------------------------------------------------------------
\* Sample IDs

HasSampleID(r) == "SampleID" \in DOMAIN r

\* The table carries Sample ID 1, 2, ..., N down the rows of the file.
NumberedFromOne(t, file) ==
    /\ Len(t) = Len(file)
    /\ \A i \in 1..Len(t) :
          /\ HasSampleID(t[i])
          /\ t[i].SampleID = i
          /\ t[i].SleepDuration = file[i].SleepDuration
          /\ t[i].StressLevel = file[i].StressLevel
          /\ t[i].PhysicalActivityLevel = file[i].PhysicalActivityLevel

\* Every row of rows has the Sample ID of the row of t it is, and the Sample
\* IDs increase down rows.
KeepsSampleIDs(rows, t) ==
    /\ \A i \in 1..Len(rows) :
          /\ HasSampleID(rows[i])
          /\ \E j \in 1..Len(t) :
                /\ t[j].index = rows[i].index
                /\ t[j].SampleID = rows[i].SampleID
    /\ \A i, j \in 1..Len(rows) : i < j => rows[i].SampleID < rows[j].SampleID

----------------------------------------------------------------------------
\* C8: whatever callbacks have run, on whatever values, each module-level
\* table has the rows, cells and order it had after load.
C8_TableNeverMutated ==
    /\ df = load_app(csv)
    /\ df_p4 = load_project4(csv)

\* Callbacks have run more than once, the latest returned fewer rows than the
\* table has, and the table is as loaded.
C8_Witness ==
    /\ Handled /\ last.nth = 2
    /\ Len(last.rows) < Len(last.table)
    /\ Len(df) = Len(csv) /\ Len(df_p4) = Len(csv)

\* C9: the rows a callback returns are the rows of the table as loaded that
\* satisfy the values it was called with, and nothing else: the overview
\* only the interval, the stress plot only the stress selection, the
\* activity plot only the activity selection, the comprehensive plot and
\* update_plots the two selections together; what ran before has no effect.
C9_RowsDependOnCurrentValuesOnly ==
    Handled =>
        /\ last.handler = "update_overview" =>
              ExactlyRows(last.rows, load_app(csv), None, None, last.sleep_range)
        /\ last.handler = "update_stress" =>
              ExactlyRows(last.rows, load_app(csv), last.stress, None, None)
        /\ last.handler = "update_activity" =>
              ExactlyRows(last.rows, load_app(csv), None, last.activity, None)
        /\ last.handler = "update_comprehensive" =>
              ExactlyRows(last.rows, load_app(csv), last.stress, last.activity, None)
        /\ last.handler = "update_plots" =>
              ExactlyRows(last.rows, load_project4(csv), last.stress, last.activity, None)

\* update_stress ran after other callbacks and returned some rows, not all.
C9_Witness ==
    /\ Handled /\ last.handler = "update_stress" /\ last.nth = 2
    /\ Len(last.rows) > 0
    /\ Len(last.rows) < Len(df)

\* C10: the rows update_plots filters inline are the rows filter_df returns
\* for the same table and selections, in the same order, and are the same
\* when the activity predicate is applied before the stress predicate.
C10_VariantsFilterAlike ==
    (Handled /\ last.handler = "update_plots") =>
        /\ last.rows = filter_df(df_p4, last.stress, last.activity, None)
        /\ last.rows =
              LET a == IF Truthy(last.activity)
                       THEN MaskActivity(df_p4, last.activity.list) ELSE df_p4
              IN  IF Truthy(last.stress) THEN MaskStress(a, last.stress.list) ELSE a

\* update_plots with both selections non-empty, keeping some rows and
\* dropping others.
C10_Witness ==
    /\ Handled /\ last.handler = "update_plots"
    /\ NonEmpty(last.stress) /\ NonEmpty(last.activity)
    /\ Len(last.rows) > 0
    /\ Len(last.rows) < Len(df_p4)

====
